---- MODULE Spec2Model ----
(***************************************************************************)
(* Event ticketing backend (event_api): the event catalogue, the ticket    *)
(* ledger and the purchase operation, as request handlers run by a pool of *)
(* concurrent workers against one database.                                *)
(*                                                                         *)
(* The database state is the committed content of the Event and Ticket     *)
(* tables.  A purchase runs in several steps (view lookup, serializer      *)
(* validation, the transaction.atomic() block), and other workers' steps   *)
(* interleave between them.  Inside the atomic block the writes are        *)
(* buffered and become visible together at commit; the plain               *)
(* Event.objects.get() of the block takes no row lock, so the block reads  *)
(* the latest committed row and nothing stops another transaction from     *)
(* committing between that read and this transaction's UPDATE.  The UPDATE *)
(* takes the row's write lock until the transaction ends.                  *)
(***************************************************************************)
EXTENDS Integers, Sequences, FiniteSets

\* ---------------------------------------------------------------- bounds
NProcs == 2        \* concurrent request workers
MaxEvents == 1     \* events the catalogue may hold
MaxTotal == 3      \* largest total_tickets a request supplies
MaxQty == 2        \* largest quantity a request supplies
MaxSoldInput == 1  \* largest tickets_sold a createEvent request supplies

Procs == 1..NProcs

\* ------------------------------------------------------------- accounts
\* The callers a request can come from: an Admin account, two User
\* accounts, and a caller without valid credentials.
Callers == {"admin", "alice", "bob", "anon"}

is_authenticated(c) == c # "anon"

role(c) == IF c = "admin" THEN "Admin" ELSE "User"

\* permissions.py: IsAdminUser.has_permission
IsAdminUser(c, method) ==
    IF method = "POST"
    THEN is_authenticated(c) /\ role(c) = "Admin"
    ELSE is_authenticated(c)

\* A permission that lets every authenticated account through.
IsRegularUser_AnyRole(c) == is_authenticated(c)

\* permissions.py: IsRegularUser.has_permission
IsRegularUser(c) == is_authenticated(c) /\ role(c) = "User"

\* ------------------------------------------------------------- requests
NoReq == [op |-> "none", caller |-> "anon", id |-> 0, quantity |-> 0]
NoResp == [kind |-> "none", remaining |-> 0]
NoEvent == [total_tickets |-> 0, tickets_sold |-> 0]

Resp(k) == [kind |-> k, remaining |-> 0]

Failures == {"Unauthorized", "Forbidden", "NotFound", "InvalidInput",
             "InsufficientCapacity", "ServerError", "DuplicateUsername"}

VARIABLES
    events,   \* Event table, committed: id (1..) -> [total_tickets, tickets_sold]
    tickets,  \* Ticket table, committed, in insertion order: [user, event, quantity]
    pc,       \* each worker's position in its handler
    req,      \* the request a worker is handling
    snap,     \* the Event object the purchase view fetched (views.py:221)
    txn,      \* the Event object re-read in the atomic block and its new tickets_sold
    resp,     \* the response of a finished request
    dirty,    \* history: the request has changed the committed tables
    users,    \* User table, committed, in insertion order: [username, role]
    form      \* the data of the register request a worker is handling

vars == <<events, tickets, pc, req, snap, txn, resp, dirty, users, form>>

NoTxn == [read_sold |-> 0, tickets_sold |-> 0]

NoForm == [username |-> "", password |-> FALSE, role |-> "User"]

EventIds == DOMAIN events

\* Workers inside the atomic block of a purchase on event e.
InTx(p) == pc[p] \in {"save", "create_ticket", "commit"}

\* A row lock that outlives the transaction.
HoldsLock_NeverReleased(p) == pc[p] \in {"create_ticket", "commit", "done"}

\* The UPDATE of event.save() holds the row's write lock until commit.
HoldsLock(p) == pc[p] \in {"create_ticket", "commit"}

Locked(e, p) == \E o \in Procs \ {p} : HoldsLock(o) /\ req[o].id = e

\* ------------------------------------------------------------ helpers
\* serializers.py:142 and :167, the capacity test of validate() and create()
Insufficient(ev, quantity) ==
    ev.tickets_sold + quantity > ev.total_tickets

\* serializers.py:143 and :168, the count the error message reports
Remaining(ev) == ev.total_tickets - ev.tickets_sold

\* serializers.py:170-171, the new tickets_sold of the fetched Event object
Incremented(sold, quantity) == (sold + quantity) + quantity

\* An IntegerField without min_value.
QuantityValid_NoMin(quantity) == TRUE

\* serializers.py:121, quantity = IntegerField(min_value=1)
QuantityValid(quantity) == quantity >= 1

\* The request ends: the worker holds its response until it takes the next
\* request.
Finish(p, r) ==
    /\ pc' = [pc EXCEPT ![p] = "done"]
    /\ resp' = [resp EXCEPT ![p] = r]
    /\ snap' = [snap EXCEPT ![p] = NoEvent]
    /\ txn' = [txn EXCEPT ![p] = NoTxn]

\* History of what request p did to the committed tables.
Touch(p) ==
    dirty' = [dirty EXCEPT ![p] =
               @ \/ events' # events \/ tickets' # tickets \/ users' # users]

\* ------------------------------------------------------------- Init
Init ==
    /\ events = << >>
    /\ tickets = << >>
    /\ pc = [p \in Procs |-> "idle"]
    /\ req = [p \in Procs |-> NoReq]
    /\ snap = [p \in Procs |-> NoEvent]
    /\ txn = [p \in Procs |-> NoTxn]
    /\ resp = [p \in Procs |-> NoResp]
    /\ dirty = [p \in Procs |-> FALSE]
    /\ users = << >>
    /\ form = [p \in Procs |-> NoForm]

\* ------------------------------------------------------ Event catalogue
\* The data of a createEvent request.  valid = FALSE stands for any field
\* the ModelSerializer refuses (name or date missing, a total_tickets that
\* is no integer).  tickets_sold is a writable field of the serializer
\* (fields = '__all__'); a request that omits it gets the default 0.
EventData ==
    [valid : BOOLEAN,
     total_tickets : (-1)..MaxTotal,
     tickets_sold : 0..MaxSoldInput]

\* views.py: EventAPIView.create (POST /events/)
CreateEvent(p, c, data) ==
    /\ pc[p] = "idle"
    /\ req' = [req EXCEPT ![p] =
                 [op |-> "createEvent", caller |-> c, id |-> 0, quantity |-> 0]]
    /\ IF ~is_authenticated(c)
       THEN /\ Finish(p, Resp("Unauthorized"))
            /\ UNCHANGED <<events, tickets>>
       ELSE IF ~IsAdminUser(c, "POST")
       THEN /\ Finish(p, Resp("Forbidden"))
            /\ UNCHANGED <<events, tickets>>
       ELSE IF ~data.valid
       THEN /\ Finish(p, Resp("InvalidInput"))
            /\ UNCHANGED <<events, tickets>>
       ELSE /\ Len(events) < MaxEvents
            /\ events' = Append(events,
                 [total_tickets |-> data.total_tickets,
                  tickets_sold |-> data.tickets_sold])
            /\ UNCHANGED tickets
            /\ Finish(p, Resp("Created"))
    /\ UNCHANGED <<users, form>>
    /\ Touch(p)

\* views.py: EventAPIView (GET /events/), the list of ListCreateAPIView
ListEvents(p, c) ==
    /\ pc[p] = "idle"
    /\ req' = [req EXCEPT ![p] =
                 [op |-> "listEvents", caller |-> c, id |-> 0, quantity |-> 0]]
    /\ IF ~is_authenticated(c)
       THEN Finish(p, Resp("Unauthorized"))
       ELSE IF ~IsAdminUser(c, "GET")
       THEN Finish(p, Resp("Forbidden"))
       ELSE Finish(p, Resp("OK"))
    /\ UNCHANGED <<events, tickets>>
    /\ UNCHANGED <<users, form>>
    /\ Touch(p)

\* ------------------------------------------------------------ purchase
\* views.py:221-222: Event.objects.get(id=id) finds a row or raises
\* Event.DoesNotExist
EventExists(id) == id \in EventIds

\* The DoesNotExist exception left uncaught: the view answers 500.
EventNotFound_Uncaught == Resp("ServerError")

\* views.py:223: the 404 answer of the view
EventNotFound == Resp("NotFound")

\* The first row of the table instead of the row of the given id.
FetchEvent_First(id) == events[1]

\* serializers.py:166: Event.objects.get(id=event.id), the latest committed
\* row of this event
FetchEvent(id) == events[id]

\* views.py: TicketPurchaseAPIView, permission check and event lookup
\* (POST /events/<id>/purchase/)
PurchaseRequest(p, c, id, quantity) ==
    /\ pc[p] = "idle"
    /\ req' = [req EXCEPT ![p] =
                 [op |-> "purchase", caller |-> c, id |-> id,
                  quantity |-> quantity]]
    /\ IF ~is_authenticated(c)
       THEN Finish(p, Resp("Unauthorized"))
       ELSE IF ~IsRegularUser(c)
       THEN Finish(p, Resp("Forbidden"))
       ELSE IF ~EventExists(id)
       THEN Finish(p, EventNotFound)
       ELSE /\ pc' = [pc EXCEPT ![p] = "is_valid"]
            /\ snap' = [snap EXCEPT ![p] = events[id]]
            /\ UNCHANGED <<txn, resp>>
    /\ UNCHANGED <<events, tickets>>
    /\ UNCHANGED <<users, form>>
    /\ Touch(p)

\* serializer.is_valid(): the quantity field, then validate() on the Event
\* object the view fetched
PurchaseIsValid(p) ==
    /\ pc[p] = "is_valid"
    /\ IF ~QuantityValid(req[p].quantity)
       THEN Finish(p, Resp("InvalidInput"))
       ELSE IF Insufficient(snap[p], req[p].quantity)
       THEN Finish(p, [kind |-> "InsufficientCapacity",
                       remaining |-> Remaining(snap[p])])
       ELSE /\ pc' = [pc EXCEPT ![p] = "atomic"]
            /\ UNCHANGED <<snap, txn, resp>>
    /\ UNCHANGED <<events, tickets, req>>
    /\ UNCHANGED <<users, form>>
    /\ Touch(p)

\* serializers.py:165-171: enter the atomic block, fetch the event again,
\* test the capacity and compute the new tickets_sold on the fetched object
PurchaseAtomicRead(p) ==
    /\ pc[p] = "atomic"
    /\ LET ev == FetchEvent(req[p].id) IN
       IF Insufficient(ev, req[p].quantity)
       THEN Finish(p, [kind |-> "InsufficientCapacity",
                       remaining |-> Remaining(ev)])
       ELSE /\ pc' = [pc EXCEPT ![p] = "save"]
            /\ txn' = [txn EXCEPT ![p] =
                 [read_sold |-> ev.tickets_sold,
                  tickets_sold |-> Incremented(ev.tickets_sold, req[p].quantity)]]
            /\ UNCHANGED <<snap, resp>>
    /\ UNCHANGED <<events, tickets, req>>
    /\ UNCHANGED <<users, form>>
    /\ Touch(p)

\* The UPDATE written through to the committed table at once, as it is
\* outside a transaction.
SaveEffect_Autocommit(p) ==
    events' = [events EXCEPT ![req[p].id].tickets_sold = txn[p].tickets_sold]

\* What event.save() inside the atomic block does to the committed table:
\* nothing before commit.
SaveEffect(p) == UNCHANGED events

\* serializers.py:172: event.save(update_fields=['tickets_sold']), the
\* UPDATE; it waits for the row's write lock
PurchaseSave(p) ==
    /\ pc[p] = "save"
    /\ ~Locked(req[p].id, p)
    /\ SaveEffect(p)
    /\ pc' = [pc EXCEPT ![p] = "create_ticket"]
    /\ UNCHANGED <<tickets, req, snap, txn, resp>>
    /\ UNCHANGED <<users, form>>
    /\ Touch(p)

\* serializers.py:174: Ticket.objects.create(...), the INSERT, buffered in
\* the transaction
PurchaseTicketCreate(p) ==
    /\ pc[p] = "create_ticket"
    /\ pc' = [pc EXCEPT ![p] = "commit"]
    /\ UNCHANGED <<events, tickets, req, snap, txn, resp>>
    /\ UNCHANGED <<users, form>>
    /\ Touch(p)

\* The atomic block exits normally: the UPDATE of tickets_sold and the
\* INSERT of the Ticket are committed together; the view answers 201.
PurchaseCommit(p) ==
    /\ pc[p] = "commit"
    /\ events' = [events EXCEPT ![req[p].id].tickets_sold = txn[p].tickets_sold]
    /\ tickets' = Append(tickets,
         [user |-> req[p].caller, event |-> req[p].id,
          quantity |-> req[p].quantity])
    /\ Finish(p, Resp("Created"))
    /\ UNCHANGED req
    /\ UNCHANGED <<users, form>>
    /\ Touch(p)

\* Another transaction works on the same event row: it is in its own atomic
\* block, or it has committed a tickets_sold since this one read the row.
Conflict(p) ==
    \/ \E o \in Procs \ {p} : InTx(o) /\ req[o].id = req[p].id
    \/ pc[p] = "save" /\ events[req[p].id].tickets_sold # txn[p].read_sold

\* The database refuses a statement of the block because of a conflicting
\* transaction (a locked database, a serialization failure): the exception
\* leaves the atomic block, which rolls back, and the view answers 500.
PurchaseAbort(p) ==
    /\ InTx(p)
    /\ Conflict(p)
    /\ Finish(p, Resp("ServerError"))
    /\ UNCHANGED <<events, tickets, req>>
    /\ UNCHANGED <<users, form>>
    /\ Touch(p)

\* ------------------------------------------------------- registration
Usernames == {"", "alice", "bob"}

\* models.py: User.ROLE_CHOICES
ROLE_CHOICES == {"Admin", "User"}

\* The data of a register request: the username ("" when missing or
\* blank), whether a password is supplied, and the role asked for.
RegisterData ==
    [username : Usernames, password : BOOLEAN, role : ROLE_CHOICES \cup {"Guest"}]

UsernameExists(name) == \E i \in DOMAIN users : users[i].username = name

\* A username column without the unique constraint.
UniqueViolation_NoConstraint(name) == FALSE

\* models.py:26: username = CharField(unique=True), the constraint the
\* database enforces on INSERT
UniqueViolation(name) == UsernameExists(name)

\* views.py:44-45: RegisterView.create, serializer.is_valid(): the fields
\* of UserRegisterSerializer and the uniqueness validator of username,
\* which looks the name up in the table
RegisterRequest(p, data) ==
    /\ pc[p] = "idle"
    /\ req' = [req EXCEPT ![p] =
                 [op |-> "register", caller |-> "anon", id |-> 0, quantity |-> 0]]
    /\ form' = [form EXCEPT ![p] = data]
    /\ IF data.username = "" \/ ~data.password \/ data.role \notin ROLE_CHOICES
       THEN Finish(p, Resp("InvalidInput"))
       ELSE IF UsernameExists(data.username)
       THEN Finish(p, Resp("DuplicateUsername"))
       ELSE /\ pc' = [pc EXCEPT ![p] = "create_user"]
            /\ UNCHANGED <<snap, txn, resp>>
    /\ UNCHANGED <<events, tickets, users>>
    /\ Touch(p)

\* views.py:46-54: serializer.save(), UserManager.create_user and its
\* INSERT; an IntegrityError of the unique constraint is answered 400
\* "Username already exists"
RegisterCreateUser(p) ==
    /\ pc[p] = "create_user"
    /\ IF UniqueViolation(form[p].username)
       THEN /\ Finish(p, Resp("DuplicateUsername"))
            /\ UNCHANGED users
       ELSE /\ users' = Append(users,
                 [username |-> form[p].username, role |-> form[p].role])
            /\ Finish(p, Resp("Registered"))
    /\ UNCHANGED <<events, tickets, req, form>>
    /\ Touch(p)

\* The worker has sent its response and is free for the next request.
Respond(p) ==
    /\ pc[p] = "done"
    /\ pc' = [pc EXCEPT ![p] = "idle"]
    /\ req' = [req EXCEPT ![p] = NoReq]
    /\ resp' = [resp EXCEPT ![p] = NoResp]
    /\ dirty' = [dirty EXCEPT ![p] = FALSE]
    /\ UNCHANGED <<events, tickets, snap, txn, users>>
    /\ form' = [form EXCEPT ![p] = NoForm]

PurchaseStep(p) ==
    \/ \E c \in Callers, id \in 1..(MaxEvents + 1), quantity \in 0..MaxQty :
         PurchaseRequest(p, c, id, quantity)
    \/ PurchaseIsValid(p)
    \/ PurchaseAtomicRead(p)
    \/ PurchaseSave(p)
    \/ PurchaseTicketCreate(p)
    \/ PurchaseCommit(p)
    \/ PurchaseAbort(p)

Next ==
    \E p \in Procs :
        \/ \E c \in Callers, data \in EventData : CreateEvent(p, c, data)
        \/ \E c \in Callers : ListEvents(p, c)
        \/ PurchaseStep(p)
        \/ Respond(p)

Spec == Init /\ [][Next]_vars

\* ------------------------------------------------- concurrent purchases
\* N workers, each issuing one purchase, against a catalogue that holds one
\* freshly created event with no ticket sold.
InitPurchases ==
    /\ \E total \in 0..MaxTotal :
         events = << [total_tickets |-> total, tickets_sold |-> 0] >>
    /\ tickets = << >>
    /\ pc = [p \in Procs |-> "idle"]
    /\ req = [p \in Procs |-> NoReq]
    /\ snap = [p \in Procs |-> NoEvent]
    /\ txn = [p \in Procs |-> NoTxn]
    /\ resp = [p \in Procs |-> NoResp]
    /\ dirty = [p \in Procs |-> FALSE]
    /\ users = << >>
    /\ form = [p \in Procs |-> NoForm]

NextPurchases == \E p \in Procs : PurchaseStep(p)

SpecPurchases == InitPurchases /\ [][NextPurchases]_vars

\* --------------------------------------- purchases on different events
\* N workers, each issuing one purchase, against a catalogue of two freshly
\* created events with no ticket sold.
InitTwoEvents ==
    /\ \E t1 \in 0..MaxTotal, t2 \in 0..MaxTotal :
         events = << [total_tickets |-> t1, tickets_sold |-> 0],
                     [total_tickets |-> t2, tickets_sold |-> 0] >>
    /\ tickets = << >>
    /\ pc = [p \in Procs |-> "idle"]
    /\ req = [p \in Procs |-> NoReq]
    /\ snap = [p \in Procs |-> NoEvent]
    /\ txn = [p \in Procs |-> NoTxn]
    /\ resp = [p \in Procs |-> NoResp]
    /\ dirty = [p \in Procs |-> FALSE]
    /\ users = << >>
    /\ form = [p \in Procs |-> NoForm]

SpecTwoEvents == InitTwoEvents /\ [][NextPurchases]_vars

\* The steps of a purchase that the handler's own code takes; a database
\* error (PurchaseAbort) may happen but is never bound to.
PurchaseProgress(p) ==
    \/ \E c \in Callers, id \in 1..(MaxEvents + 1), quantity \in 0..MaxQty :
         PurchaseRequest(p, c, id, quantity)
    \/ PurchaseIsValid(p)
    \/ PurchaseAtomicRead(p)
    \/ PurchaseSave(p)
    \/ PurchaseTicketCreate(p)
    \/ PurchaseCommit(p)

\* Every handler thread keeps being scheduled: a worker whose next step
\* stays possible takes it.
SpecPurchasesFair ==
    SpecPurchases /\ \A p \in Procs : WF_vars(PurchaseProgress(p))

\* --------------------------------------------------------- registrations
\* The workers serve register requests against an empty User table.
NextRegister ==
    \E p \in Procs :
        \/ \E data \in RegisterData : RegisterRequest(p, data)
        \/ RegisterCreateUser(p)
        \/ Respond(p)

SpecRegister == Init /\ [][NextRegister]_vars

\* =============================================================== claims
Min(a, b) == IF a <= b THEN a ELSE b

Event(p) == events[req[p].id]

IsPurchase(p) == req[p].op = "purchase"

\* Purchase calls that have passed the view's lookup and are not finished.
InFlight(p) == IsPurchase(p) /\ pc[p] \notin {"idle", "done"}

Succeeded(p) == pc[p] = "done" /\ resp[p].kind = "Created"

Failed(p) == pc[p] = "done" /\ resp[p].kind \in Failures

\* The step in which purchase p is rejected for lack of capacity.
Rejects(p) ==
    /\ IsPurchase(p)
    /\ pc[p] # "done"
    /\ pc'[p] = "done"
    /\ resp'[p].kind = "InsufficientCapacity"

\* The step in which purchase p commits.
Commits(p) ==
    /\ pc[p] = "commit"
    /\ pc'[p] = "done"
    /\ resp'[p].kind = "Created"

TicketOf(p) ==
    [user |-> req[p].caller, event |-> req[p].id, quantity |-> req[p].quantity]

RECURSIVE QuantitySum(_, _)
\* The sum of quantity over the Tickets of ledger led that reference event e.
QuantitySum(led, e) ==
    IF led = << >> THEN 0
    ELSE (IF Head(led).event = e THEN Head(led).quantity ELSE 0)
         + QuantitySum(Tail(led), e)

\* ---- C1
\* C1: in every reachable state every event E has
\* 0 <= tickets_sold(E) <= total_tickets(E).
C1_SoldWithinCapacity ==
    \A e \in EventIds :
        /\ 0 <= events[e].tickets_sold
        /\ events[e].tickets_sold <= events[e].total_tickets

\* ---- C2
\* C2: conservation: whenever no purchase is in flight, tickets_sold(E) is
\* the sum of quantity over the committed Tickets of E.
C2_Conservation ==
    (\A p \in Procs : ~InFlight(p)) =>
        \A e \in EventIds :
            events[e].tickets_sold = QuantitySum(tickets, e)

\* ---- C3
\* C3: N concurrent purchases of quantity 1 by User accounts against one
\* event with total_tickets = T and tickets_sold = 0: exactly min(N, T)
\* succeed, the others fail with InsufficientCapacity, never more than T
\* succeed.
C3_ExactlyMinSucceed ==
    (\A p \in Procs :
        /\ pc[p] = "done"
        /\ IsPurchase(p)
        /\ IsRegularUser(req[p].caller)
        /\ req[p].id = 1
        /\ req[p].quantity = 1)
    =>
    LET T == events[1].total_tickets
        ok == {p \in Procs : Succeeded(p)}
    IN  /\ Cardinality(ok) = Min(NProcs, T)
        /\ Cardinality(ok) <= T
        /\ \A p \in Procs \ ok : resp[p].kind = "InsufficientCapacity"

\* ---- C4
\* C4: no lost update: a purchase that commits its tickets_sold computed it
\* from the value that is still the committed one, that is, no other
\* purchase on the event committed between its read and its commit.
C4_NoLostUpdate ==
    [][\A p \in Procs :
         Commits(p) => Event(p).tickets_sold = txn[p].read_sold]_vars

\* ---- C5
\* C5: a purchase of quantity q that succeeds with no concurrent purchase on
\* its event takes tickets_sold from s to s + q and appends exactly one
\* Ticket (user, event, q).
C5_PurchaseAddsQuantity ==
    [][\A p \in Procs :
         (/\ Commits(p)
          /\ \A o \in Procs \ {p} : ~(InFlight(o) /\ req[o].id = req[p].id))
         =>
         /\ events'[req[p].id].tickets_sold
              = Event(p).tickets_sold + req[p].quantity
         /\ tickets' = Append(tickets, TicketOf(p))]_vars

\* ---- C6
\* C6: a purchase call that has failed, for whatever reason, has changed
\* neither any event's tickets_sold nor the Ticket records.
C6_FailedPurchaseChangesNothing ==
    \A p \in Procs : (IsPurchase(p) /\ Failed(p)) => ~dirty[p]

\* One purchase was rolled back by the database and another was refused for
\* lack of capacity, with tickets already sold.
C6_Witness ==
    /\ Len(tickets) > 0
    /\ \E p \in Procs : IsPurchase(p) /\ Failed(p) /\ resp[p].kind = "ServerError"
    /\ \E p \in Procs :
         IsPurchase(p) /\ Failed(p) /\ resp[p].kind = "InsufficientCapacity"

\* ---- C7
\* C7: the counter update and the ticket append of a purchase become visible
\* in the same step: a step that changes a committed tickets_sold appends
\* that purchase's Ticket, and a step that changes the ledger appends one
\* Ticket of a committing purchase and installs that purchase's tickets_sold.
C7_CounterAndTicketTogether ==
    [][/\ \A e \in EventIds :
            events'[e].tickets_sold # events[e].tickets_sold =>
                \E p \in Procs :
                    /\ Commits(p)
                    /\ req[p].id = e
                    /\ tickets' = Append(tickets, TicketOf(p))
       /\ tickets' # tickets =>
            \E p \in Procs :
                /\ Commits(p)
                /\ tickets' = Append(tickets, TicketOf(p))
                /\ events'[req[p].id].tickets_sold = txn[p].tickets_sold]_vars

\* A purchase has committed: its Ticket is the last of the ledger and the
\* event carries the tickets_sold it wrote.
C7_Witness ==
    \E p \in Procs :
        /\ IsPurchase(p)
        /\ Succeeded(p)
        /\ Len(tickets) > 0
        /\ tickets[Len(tickets)] = TicketOf(p)
        /\ Event(p).tickets_sold > 0

\* ---- C8
\* C8: role gating: createEvent by a User account and purchase by an Admin
\* account end with the authorization error and change nothing, and never
\* get past the permission check; listEvents succeeds for every
\* authenticated account.
C8_RoleGating ==
    \A p \in Procs :
        LET c == req[p].caller IN
        /\ (req[p].op = "createEvent" /\ is_authenticated(c) /\ role(c) = "User")
             => (pc[p] = "done" /\ resp[p].kind = "Forbidden" /\ ~dirty[p])
        /\ (IsPurchase(p) /\ is_authenticated(c) /\ role(c) = "Admin")
             => (pc[p] = "done" /\ resp[p].kind = "Forbidden" /\ ~dirty[p])
        /\ (req[p].op = "listEvents" /\ is_authenticated(c))
             => (pc[p] = "done" /\ resp[p].kind = "OK")

\* An Admin's purchase on an existing event with capacity left and a User's
\* createEvent have both been answered.
C8_Witness ==
    /\ \E p \in Procs :
         /\ IsPurchase(p) /\ pc[p] = "done" /\ req[p].caller = "admin"
         /\ req[p].id \in EventIds
         /\ req[p].quantity >= 1
         /\ ~Insufficient(Event(p), req[p].quantity)
    /\ \E p \in Procs :
         /\ req[p].op = "createEvent" /\ pc[p] = "done"
         /\ role(req[p].caller) = "User" /\ is_authenticated(req[p].caller)

\* ---- C9
\* C9: when a purchase fails with InsufficientCapacity, the remaining count
\* it reports is total_tickets - tickets_sold as committed at that moment.
C9_RemainingIsCurrent ==
    [][\A p \in Procs :
         Rejects(p) => resp'[p].remaining = Remaining(Event(p))]_vars

\* ---- C10
\* C10: a purchase of quantity q is rejected with InsufficientCapacity only
\* if, at the moment of rejection, the committed tickets_sold + q exceeds
\* total_tickets.
C10_RejectedOnlyIfFull ==
    [][\A p \in Procs :
         Rejects(p) => Insufficient(Event(p), req[p].quantity)]_vars

\* ---- C11
\* C11: every stored event has total_tickets >= 0 (a createEvent with a
\* negative total_tickets is refused and creates no event).
C11_TotalNonNegative ==
    \A e \in EventIds : events[e].total_tickets >= 0

\* ---- C12
\* C12: an event has tickets_sold = 0 in the state right after its
\* creation, whatever the request supplies.
C12_NewEventNothingSold ==
    [][Len(events') > Len(events) =>
         events'[Len(events')].tickets_sold = 0]_vars

\* ---- C13
\* C13: a purchase by a User account on an event id for which no event
\* exists never gets past the view's lookup; it fails with EventNotFound and
\* changes no event's tickets_sold and appends no Ticket.
C13_UnknownEventNotFound ==
    \A p \in Procs :
        (IsPurchase(p) /\ IsRegularUser(req[p].caller) /\ ~EventExists(req[p].id))
        => (pc[p] = "done" /\ resp[p].kind = "NotFound" /\ ~dirty[p])

\* A User's purchase on an unknown id was answered while the catalogue holds
\* an event and the ledger a Ticket.
C13_Witness ==
    \E p \in Procs :
        /\ IsPurchase(p) /\ pc[p] = "done"
        /\ IsRegularUser(req[p].caller)
        /\ req[p].quantity >= 1
        /\ ~EventExists(req[p].id)
        /\ Len(events) > 0
        /\ Len(tickets) > 0

\* ---- C14
\* C14: at most one account exists per username, after any interleaving of
\* register calls; a register call answered DuplicateUsername found the
\* username taken and created no account, and a successful one created the
\* only account of its username.
C14_UniqueUsername ==
    /\ \A i, j \in DOMAIN users :
         users[i].username = users[j].username => i = j
    /\ \A p \in Procs :
         (req[p].op = "register" /\ pc[p] = "done") =>
            /\ resp[p].kind \in Failures => ~dirty[p]
            /\ resp[p].kind = "DuplicateUsername" => UsernameExists(form[p].username)
            /\ resp[p].kind = "Registered" =>
                 (dirty[p] /\ UsernameExists(form[p].username))

\* Two registrations of one username ran concurrently: both passed the
\* validator, one created the account and the other was refused by the
\* unique constraint.
C14_Witness ==
    \E p, o \in Procs :
        /\ p # o
        /\ req[p].op = "register" /\ req[o].op = "register"
        /\ form[p].username = form[o].username
        /\ pc[p] = "done" /\ resp[p].kind = "Registered"
        /\ pc[o] = "create_user"

\* ---- C15
\* C15: under fair scheduling of the workers every purchase call that has
\* started eventually completes, with a committed Ticket or a failure.
C15_PurchaseCompletes ==
    \A p \in Procs : InFlight(p) ~> (pc[p] = "done")

\* A purchase waits for the row lock that another purchase on the same
\* event holds.
C15_Witness ==
    \E p \in Procs :
        /\ pc[p] = "save"
        /\ Locked(req[p].id, p)

\* ---- C16
\* C16: in every step the committed tickets_sold of every event does not
\* decrease and its total_tickets does not change.
C16_SoldNeverDecreases ==
    [][\A e \in EventIds :
         /\ events'[e].tickets_sold >= events[e].tickets_sold
         /\ events'[e].total_tickets = events[e].total_tickets]_vars

\* ---- C17
\* C17: the ledger is append-only: a step that changes it appends exactly
\* the Ticket of a purchase that commits in that step and leaves every
\* earlier Ticket as it was; every committed Ticket has quantity >= 1.
C17_LedgerAppendOnly ==
    [][/\ tickets' # tickets =>
            \E p \in Procs :
                /\ Commits(p)
                /\ Len(tickets') = Len(tickets) + 1
                /\ \A i \in DOMAIN tickets : tickets'[i] = tickets[i]
                /\ tickets'[Len(tickets')] = TicketOf(p)
       /\ \A i \in DOMAIN tickets' : tickets'[i].quantity >= 1]_vars

\* The ledger holds two Tickets, of different quantities.
C17_Witness ==
    /\ Len(tickets) >= 2
    /\ tickets[1].quantity # tickets[2].quantity

\* ---- C18
\* The Tickets of ledger led that reference event e, in order.
TicketsOf(led, e) == SelectSeq(led, LAMBDA t : t.event = e)

\* The purchase of worker p is the only request on its event.
AloneOnEvent(p) ==
    /\ IsPurchase(p)
    /\ IsRegularUser(req[p].caller)
    /\ EventExists(req[p].id)
    /\ \A o \in Procs \ {p} : req[o].id # req[p].id

\* The answer a purchase gets when it runs on a fresh event with nothing
\* else running.
OutcomeAlone(p) ==
    IF ~QuantityValid(req[p].quantity) THEN "InvalidInput"
    ELSE IF req[p].quantity > Event(p).total_tickets THEN "InsufficientCapacity"
    ELSE "Created"

\* The tickets_sold the code stores for a purchase on a fresh event.
txnResult(p) == Incremented(0, req[p].quantity)

\* What a finished purchase that was alone on its event has to show.
IndependentOutcome ==
    \A p \in Procs :
        (AloneOnEvent(p) /\ pc[p] = "done") =>
            /\ resp[p].kind = OutcomeAlone(p)
            /\ Event(p).tickets_sold =
                 IF Succeeded(p) THEN txnResult(p) ELSE 0

C19_RoleCheckFirst ==
    \A p \in Procs :
        (/\ IsPurchase(p)
         /\ (~is_authenticated(req[p].caller) \/ role(req[p].caller) = "Admin")) =>
            /\ pc[p] = "done"
            /\ resp[p].kind =
                 IF is_authenticated(req[p].caller) THEN "Forbidden"
                 ELSE "Unauthorized"

\* An Admin's purchase on an unknown event id and an unauthenticated
\* purchase on an event without capacity have both been answered.
C19_Witness ==
    /\ \E p \in Procs :
         /\ IsPurchase(p) /\ pc[p] = "done" /\ req[p].caller = "admin"
         /\ ~EventExists(req[p].id)
    /\ \E p \in Procs :
         /\ IsPurchase(p) /\ pc[p] = "done" /\ req[p].caller = "anon"
         /\ EventExists(req[p].id)
         /\ req[p].quantity >= 1
         /\ Insufficient(Event(p), req[p].quantity)

====
